---- MODULE Spec2Model ----
(***************************************************************************)
(* A model of the ASCII rendering backend, backends/ascii_art.rs.          *)
(*                                                                         *)
(* ASCIIWriter keeps a growable grid of (char, Option<Color>) cells.  The  *)
(* draw calls of RenderBackend map floating-point coordinates to cells     *)
(* and write glyphs through set / set_with_color; finalize serializes the  *)
(* grid as plain text or as text with ANSI colour escapes.                 *)
(*                                                                         *)
(* Conventions of the model:                                               *)
(*  - a char is a one-character string; the escape byte 0x1b is "ESC";     *)
(*    a String is a sequence of chars;                                     *)
(*  - Option::None of a colour is NoColor, None of a fill colour NoFill;   *)
(*  - a Point is a record [x, y] of integers (floats with integral values; *)
(*    every division and rounding of the code is computed exactly);        *)
(*  - Rust vectors are indexed from 0, TLA+ sequences from 1: cell (x, y)  *)
(*    of the code is grid[y + 1][x + 1] here;                              *)
(*  - a rasterizer is the sequence of the set / set_with_color calls it    *)
(*    makes, in the order the code makes them; ApplyWrites performs them.  *)
(***************************************************************************)
EXTENDS Integers, Sequences, FiniteSets, TLC

VARIABLES
    grid,          \* Vec<Vec<(char, Option<Color>)>>
    width,         \* usize
    height,        \* usize
    scale,         \* f64, pixels per cell
    clips,         \* Vec<(Point, Point, usize)>
    is_terminal,   \* bool
    use_colors,    \* bool
    panicked,      \* an indexed store went out of bounds (Rust panics)
    last,          \* history: the last call made on the writer and its arguments
    writes,        \* history: the set / set_with_color calls the last call made
    fillText,      \* history: some drawn text held a fill glyph
    out,           \* history: the String the last finalize() returned
    ret,           \* history: the value the last create_clip returned
    ncalls,        \* history: number of &mut self calls made so far
    maxX,          \* history: largest x of a write with x, y >= 0 so far (-1: none)
    maxY,          \* history: largest y of a write with x, y >= 0 so far (-1: none)
    seg            \* the locals of a draw_line_segment call that runs step by step

vars == <<grid, width, height, scale, clips, is_terminal, use_colors,
          panicked, last, writes, fillText, out, ret, ncalls, maxX, maxY, seg>>

(***************************************************************************)
(* Bounds of the model.                                                    *)
(***************************************************************************)
MaxCalls == 2

\* The coordinates of the end points of a line segment run step by step are
\* -MaxCoord..MaxCoord.
MaxCoord == 5

(***************************************************************************)
(* Small helpers.                                                          *)
(***************************************************************************)
NoColor == "None"
NoFill == -1
NoClip == -1
Blank == <<" ", NoColor>>
ESC == "ESC"

Pt(x, y) == [x |-> x, y |-> y]

Abs(n) == IF n < 0 THEN -n ELSE n
Min(a, b) == IF a < b THEN a ELSE b
Max(a, b) == IF a > b THEN a ELSE b

\* f64::round of n / d for d > 0: to the nearest integer, halves away from zero.
RoundDiv(n, d) ==
    IF n >= 0 THEN (2 * n + d) \div (2 * d)
    ELSE -((2 * (-n) + d) \div (2 * d))

\* f64::floor and f64::ceil of n / d for d > 0.
FloorDiv(n, d) == n \div d
CeilDiv(n, d) == -((-n) \div d)

\* isize division, which truncates toward zero.
TruncDiv(n, d) == IF n >= 0 THEN n \div d ELSE -((-n) \div d)

RECURSIVE Concat(_)
Concat(ss) == IF ss = <<>> THEN <<>> ELSE Head(ss) \o Concat(Tail(ss))

\* format!("{}", n) of an unsigned integer: its decimal digits.
DigitChar(d) == <<"0", "1", "2", "3", "4", "5", "6", "7", "8", "9">>[d + 1]
RECURSIVE Digits(_)
Digits(n) == IF n < 10 THEN <<DigitChar(n)>>
             ELSE Append(Digits(n \div 10), DigitChar(n % 10))

(***************************************************************************)
(* Grid store.  W is the record [grid, width, height, panicked] of the     *)
(* writer's fields the writes touch.                                       *)
(***************************************************************************)
\* Vec::resize / Vec::resize_with: truncate or pad with copies of v.
Resize(row, n, v) ==
    IF Len(row) >= n THEN SubSeq(row, 1, n)
    ELSE row \o [i \in 1..(n - Len(row)) |-> v]

\* Mutant of ensure_size: the comparisons are strict.
ensure_size_strict(W, x, y) ==
    LET W1 == IF y > W.height
              THEN LET new_height == y + 1
                       fill_width == Max(W.width, 1)
                   IN [W EXCEPT !.grid = Resize(W.grid, new_height,
                                                [i \in 1..fill_width |-> Blank]),
                                !.height = new_height]
              ELSE W
        W2 == IF x > W1.width
              THEN LET new_width == x + 1
                   IN [W1 EXCEPT !.grid = [r \in DOMAIN W1.grid |->
                                              Resize(W1.grid[r], new_width, Blank)],
                                 !.width = new_width]
              ELSE W1
    IN W2

\* Mutant of ensure_size: the rows it adds are empty.
ensure_size_empty_rows(W, x, y) ==
    LET W1 == IF y >= W.height
              THEN LET new_height == y + 1
                   IN [W EXCEPT !.grid = Resize(W.grid, new_height, <<>>),
                                !.height = new_height]
              ELSE W
        W2 == IF x >= W1.width
              THEN LET new_width == x + 1
                   IN [W1 EXCEPT !.grid = [r \in DOMAIN W1.grid |->
                                              Resize(W1.grid[r], new_width, Blank)],
                                 !.width = new_width]
              ELSE W1
    IN W2

ensure_size(W, x, y) ==
    LET W1 == IF y >= W.height
              THEN LET new_height == y + 1
                       fill_width == Max(W.width, 1)
                   IN [W EXCEPT !.grid = Resize(W.grid, new_height,
                                                [i \in 1..fill_width |-> Blank]),
                                !.height = new_height]
              ELSE W
        W2 == IF x >= W1.width
              THEN LET new_width == x + 1
                   IN [W1 EXCEPT !.grid = [r \in DOMAIN W1.grid |->
                                              Resize(W1.grid[r], new_width, Blank)],
                                 !.width = new_width]
              ELSE W1
    IN W2

\* to_ixy: p / scale rounded, per axis.
to_ixy(sc, p) == <<RoundDiv(p.x, sc), RoundDiv(p.y, sc)>>

\* Mutant of clamp_nonneg: negative coordinates are clamped to 0.
clamp_to_zero(ix, iy) == <<Max(ix, 0), Max(iy, 0)>>

\* Option<(usize, usize)>: <<>> is None.
clamp_nonneg(ix, iy) == IF ix < 0 \/ iy < 0 THEN <<>> ELSE <<ix, iy>>

set_with_color(W, ix, iy, ch, color) ==
    LET c == clamp_nonneg(ix, iy)
    IN IF c = <<>> THEN W
       ELSE LET W1 == ensure_size(W, c[1], c[2])
            IN IF c[2] + 1 \in DOMAIN W1.grid /\ c[1] + 1 \in DOMAIN W1.grid[c[2] + 1]
               THEN [W1 EXCEPT !.grid[c[2] + 1][c[1] + 1] = <<ch, color>>]
               ELSE [W1 EXCEPT !.panicked = TRUE]

\* One call of set / set_with_color, as its arguments.
Write(ix, iy, ch, color) == [ix |-> ix, iy |-> iy, ch |-> ch, color |-> color]

set(ix, iy, ch) == Write(ix, iy, ch, NoColor)

\* The calls of ws performed in order; a panic ends the draw call.
RECURSIVE ApplyWrites(_, _)
ApplyWrites(W, ws) ==
    IF ws = <<>> \/ W.panicked THEN W
    ELSE ApplyWrites(set_with_color(W, Head(ws).ix, Head(ws).iy,
                                    Head(ws).ch, Head(ws).color),
                     Tail(ws))

(***************************************************************************)
(* Serializer.                                                             *)
(***************************************************************************)
\* Mutant of TrimEnd: the row is not trimmed.
TrimEndNothing(row, end) == end

\* while end > 0 && row[end - 1].0 == ' ' { end -= 1 }
RECURSIVE TrimEnd(_, _)
TrimEnd(row, end) ==
    IF end > 0 /\ row[end][1] = " " THEN TrimEnd(row, end - 1) ELSE end

finalize_plain(g) ==
    Concat([r \in DOMAIN g |->
              LET row == g[r]
                  end == TrimEnd(row, Len(row))
              IN [i \in 1..end |-> row[i][1]] \o <<"\n">>])

color_to_ansi(color) ==
    CASE color = "Black" -> 30
      [] color = "Blue" -> 34
      [] color = "Green" -> 32
      [] color = "Red" -> 31
      [] color = "Cyan" -> 36
      [] color = "Magenta" -> 35
      [] color = "Yellow" -> 33
      [] color = "White" -> 37
      [] OTHER -> 37

ResetSeq == <<ESC, "[", "0", "m">>
ColorSeq(c) == <<ESC, "[">> \o Digits(color_to_ansi(c)) \o <<"m">>

\* Mutant of ColorRow: no reset at the end of the line.
RECURSIVE ColorRowNoFinalReset(_, _, _, _, _)
ColorRowNoFinalReset(row, i, end, current_color, acc) ==
    IF i > end
    THEN acc \o <<"\n">>
    ELSE LET ch == row[i][1]
             color == row[i][2]
             esc == IF color # current_color
                    THEN (IF current_color # NoColor THEN ResetSeq ELSE <<>>)
                         \o (IF color # NoColor THEN ColorSeq(color) ELSE <<>>)
                    ELSE <<>>
         IN ColorRowNoFinalReset(row, i + 1, end, color, acc \o esc \o <<ch>>)

\* Mutant of ColorRow: the colour is emitted anew for every cell.
RECURSIVE ColorRowEveryCell(_, _, _, _, _)
ColorRowEveryCell(row, i, end, current_color, acc) ==
    IF i > end
    THEN acc \o (IF current_color # NoColor THEN ResetSeq ELSE <<>>) \o <<"\n">>
    ELSE LET ch == row[i][1]
             color == row[i][2]
             esc == (IF current_color # NoColor THEN ResetSeq ELSE <<>>)
                    \o (IF color # NoColor THEN ColorSeq(color) ELSE <<>>)
         IN ColorRowEveryCell(row, i + 1, end, color, acc \o esc \o <<ch>>)

\* The inner loop of finalize_with_colors over row[i..end], with the text
\* emitted so far for this row and the colour in effect.
RECURSIVE ColorRow(_, _, _, _, _)
ColorRow(row, i, end, current_color, acc) ==
    IF i > end
    THEN acc \o (IF current_color # NoColor THEN ResetSeq ELSE <<>>) \o <<"\n">>
    ELSE LET ch == row[i][1]
             color == row[i][2]
             esc == IF color # current_color
                    THEN (IF current_color # NoColor THEN ResetSeq ELSE <<>>)
                         \o (IF color # NoColor THEN ColorSeq(color) ELSE <<>>)
                    ELSE <<>>
         IN ColorRow(row, i + 1, end, color, acc \o esc \o <<ch>>)

finalize_with_colors(g) ==
    Concat([r \in DOMAIN g |->
              ColorRow(g[r], 1, TrimEnd(g[r], Len(g[r])), NoColor, <<>>)])

\* Mutant of finalize: the colours-enabled flag is not consulted.
finalize_ignoring_use_colors(g, term, colors) ==
    IF term THEN finalize_with_colors(g) ELSE finalize_plain(g)

finalize(g, term, colors) ==
    IF term /\ colors THEN finalize_with_colors(g) ELSE finalize_plain(g)

(***************************************************************************)
(* Colour resolver.  A style colour is the 24-bit value 0xRRGGBB that      *)
(* extract_rgb_from_color parses out of the web colour "#rrggbbaa".        *)
(***************************************************************************)
extract_rgb_from_color(color_val) ==
    <<(color_val \div 65536) % 256, (color_val \div 256) % 256, color_val % 256>>

style_color_to_term_color(color) ==
    IF color = NoFill THEN NoColor
    ELSE LET rgb == extract_rgb_from_color(color)
             r == rgb[1]
             g == rgb[2]
             b == rgb[3]
         IN CASE r > 128 /\ g < 128 /\ b < 128 -> "Red"
              [] r < 128 /\ g > 128 /\ b < 128 -> "Green"
              [] r < 128 /\ g < 128 /\ b > 128 -> "Blue"
              [] r > 128 /\ g > 128 /\ b < 128 -> "Yellow"
              [] r > 128 /\ g < 128 /\ b > 128 -> "Magenta"
              [] r < 128 /\ g > 128 /\ b > 128 -> "Cyan"
              [] r > 200 /\ g > 200 /\ b > 200 -> "White"
              [] r < 100 /\ g < 100 /\ b < 100 -> "Black"
              [] OTHER -> "White"

(***************************************************************************)
(* Rasterizer.                                                             *)
(***************************************************************************)
draw_hline(x0, x1, y, ch) ==
    LET a == Min(x0, x1)
        b == Max(x0, x1)
    IN [i \in 1..(b - a + 1) |-> set(a + i - 1, y, ch)]

draw_vline(x, y0, y1, ch) ==
    LET a == Min(y0, y1)
        b == Max(y0, y1)
    IN [i \in 1..(b - a + 1) |-> set(x, a + i - 1, ch)]

\* The glyph of a segment, from the angle atan(dy / dx) in degrees: with
\* t = |dy| / |dx|, |angle| < 22.5 iff t < sqrt(2) - 1 iff (|dy| + |dx|)^2 < 2 dx^2,
\* and |angle| < 67.5 iff t < sqrt(2) + 1 iff |dy| <= |dx| or (|dy| - |dx|)^2 < 2 dx^2.
get_line_char(p0, p1) ==
    LET dx == p1.x - p0.x
        dy == p1.y - p0.y
        going_down_right == (dx > 0 /\ dy > 0) \/ (dx < 0 /\ dy < 0)
        nearlyHorizontal == (Abs(dy) + Abs(dx)) * (Abs(dy) + Abs(dx)) < 2 * dx * dx
        diagonal == Abs(dy) <= Abs(dx)
                    \/ (Abs(dy) - Abs(dx)) * (Abs(dy) - Abs(dx)) < 2 * dx * dx
    IN IF dx = 0 THEN "|"
       ELSE IF dy = 0 THEN "-"
       ELSE IF nearlyHorizontal THEN "-"
       ELSE IF diagonal THEN (IF going_down_right THEN "\\" ELSE "/")
       ELSE "|"

\* The loop of draw_line_segment from (x0, y0) with error term err.
RECURSIVE LineLoop(_, _, _, _, _, _, _, _, _, _)
LineLoop(x0, y0, x1, y1, dx, dy, sx, sy, err, ch) ==
    <<set(x0, y0, ch)>> \o
    (IF x0 = x1 /\ y0 = y1 THEN <<>>
     ELSE LET e2 == 2 * err
              stepX == e2 >= dy
              err1 == IF stepX THEN err + dy ELSE err
              nx == IF stepX THEN x0 + sx ELSE x0
              stepY == e2 <= dx
              err2 == IF stepY THEN err1 + dx ELSE err1
              ny == IF stepY THEN y0 + sy ELSE y0
          IN LineLoop(nx, ny, x1, y1, dx, dy, sx, sy, err2, ch))

draw_line_segment(sc, p0, p1, ch) ==
    LET a == to_ixy(sc, p0)
        b == to_ixy(sc, p1)
        x0 == a[1]
        y0 == a[2]
        x1 == b[1]
        y1 == b[2]
        dx == Abs(x1 - x0)
        sx == IF x0 < x1 THEN 1 ELSE -1
        dy == -Abs(y1 - y0)
        sy == IF y0 < y1 THEN 1 ELSE -1
    IN LineLoop(x0, y0, x1, y1, dx, dy, sx, sy, dx + dy, ch)

draw_polyline(sc, anchors, ch) ==
    Concat([i \in 1..(Len(anchors) - 1) |->
              draw_line_segment(sc, anchors[i], anchors[i + 1], ch)])

\* (size / scale).round().max(0.0) as isize
RoundedExtent(sc, len) == Max(RoundDiv(len, sc), 0)

rect_fill(sc, top_left, size, fill, color) ==
    LET o == to_ixy(sc, top_left)
        w == RoundedExtent(sc, size.x)
        h == RoundedExtent(sc, size.y)
    IN [k \in 1..(w * h) |->
          Write(o[1] + ((k - 1) % w), o[2] + ((k - 1) \div w), fill, color)]

\* Mutant of rect_outline: the edges are drawn from a width or height of 2 on.
rect_outline_edges_from_2(sc, top_left, size) ==
    LET o == to_ixy(sc, top_left)
        ix == o[1]
        iy == o[2]
        w == RoundedExtent(sc, size.x)
        h == RoundedExtent(sc, size.y)
    IN IF w <= 0 \/ h <= 0 THEN <<>>
       ELSE <<set(ix, iy, "+"), set(ix + w - 1, iy, "+"),
              set(ix, iy + h - 1, "+"), set(ix + w - 1, iy + h - 1, "+")>>
            \o (IF w >= 2
                THEN draw_hline(ix + 1, ix + w - 2, iy, "-")
                     \o draw_hline(ix + 1, ix + w - 2, iy + h - 1, "-")
                ELSE <<>>)
            \o (IF h >= 2
                THEN draw_vline(ix, iy + 1, iy + h - 2, "|")
                     \o draw_vline(ix + w - 1, iy + 1, iy + h - 2, "|")
                ELSE <<>>)

rect_outline(sc, top_left, size) ==
    LET o == to_ixy(sc, top_left)
        ix == o[1]
        iy == o[2]
        w == RoundedExtent(sc, size.x)
        h == RoundedExtent(sc, size.y)
    IN IF w <= 0 \/ h <= 0 THEN <<>>
       ELSE <<set(ix, iy, "+"), set(ix + w - 1, iy, "+"),
              set(ix, iy + h - 1, "+"), set(ix + w - 1, iy + h - 1, "+")>>
            \o (IF w > 2
                THEN draw_hline(ix + 1, ix + w - 2, iy, "-")
                     \o draw_hline(ix + 1, ix + w - 2, iy + h - 1, "-")
                ELSE <<>>)
            \o (IF h > 2
                THEN draw_vline(ix, iy + 1, iy + h - 2, "|")
                     \o draw_vline(ix + w - 1, iy + 1, iy + h - 2, "|")
                ELSE <<>>)

\* a = size.x / 2 and b = size.y / 2 are positive iff size.x and size.y are, and
\* (a * 2.0) / scale is size.x / scale.
ellipse_outline(sc, center, size) ==
    IF size.x <= 0 \/ size.y <= 0 THEN <<>>
    ELSE LET c == to_ixy(sc, center)
             cx == c[1]
             cy == c[2]
             w == RoundDiv(size.x, sc)
             h == RoundDiv(size.y, sc)
             left == cx - TruncDiv(w, 2)
             right == cx + TruncDiv(w, 2)
             top == cy - TruncDiv(h, 2)
             bottom == cy + TruncDiv(h, 2)
         IN IF w <= 2 \/ h <= 2 THEN <<set(cx, cy, "o")>>
            ELSE Concat([i \in 1..(right - left - 1) |->
                           <<set(left + i, top, "_"), set(left + i, bottom, "_")>>])
                 \o Concat([i \in 1..(bottom - top - 1) |->
                           <<set(left, top + i, "|"), set(right, top + i, "|")>>])
                 \o (IF w > 3 /\ h > 3
                     THEN <<set(left, top, "/"), set(right, top, "\\"),
                            set(left, bottom, "\\"), set(right, bottom, "/")>>
                     ELSE <<set(left, top, "+"), set(right, top, "+"),
                            set(left, bottom, "+"), set(right, bottom, "+")>>)

\* span <= t, for span = a * sqrt(1 - dy^2 / b^2) with a = sx / 2, b = sy / 2:
\* t >= 0 and sx^2 (sy^2 - 4 dy^2) <= 4 t^2 sy^2.
SpanLe(sx, sy, dy, t) ==
    t >= 0 /\ sx * sx * (sy * sy - 4 * dy * dy) <= 4 * t * t * sy * sy

\* One row iy of ellipse_fill: nothing when inside < 0, else the cells from
\* x0 = floor((center.x - span) / scale) to x1 = ceil((center.x + span) / scale).
EllipseRow(sc, center, size, iy, ch, color) ==
    LET dy == iy * sc - center.y
    IN IF 4 * dy * dy > size.y * size.y THEN <<>>
       ELSE LET x0 == CHOOSE k \in (FloorDiv(center.x - size.x, sc) - 1)..FloorDiv(center.x, sc) :
                        /\ SpanLe(size.x, size.y, dy, center.x - k * sc)
                        /\ ~SpanLe(size.x, size.y, dy, center.x - (k + 1) * sc)
                x1 == CHOOSE k \in CeilDiv(center.x, sc)..(CeilDiv(center.x + size.x, sc) + 1) :
                        /\ SpanLe(size.x, size.y, dy, k * sc - center.x)
                        /\ ~SpanLe(size.x, size.y, dy, (k - 1) * sc - center.x)
            IN [i \in 1..(x1 - x0 + 1) |-> Write(x0 + i - 1, iy, ch, color)]

ellipse_fill(sc, center, size, ch, color) ==
    IF size.x <= 0 \/ size.y <= 0 THEN <<>>
    ELSE LET cy0 == FloorDiv(2 * center.y - size.y, 2 * sc)
             cy1 == CeilDiv(2 * center.y + size.y, 2 * sc)
         IN Concat([i \in 1..(cy1 - cy0 + 1) |->
                      EllipseRow(sc, center, size, cy0 + i - 1, ch, color)])

\* str::lines: the text split at "\n", a "\r" before the "\n" dropped, and no
\* last line after a final "\n".
RECURSIVE LinesFrom(_, _)
LinesFrom(text, cur) ==
    IF text = <<>> THEN (IF cur = <<>> THEN <<>> ELSE <<cur>>)
    ELSE IF Head(text) = "\n"
         THEN <<IF cur # <<>> /\ cur[Len(cur)] = "\r"
                THEN SubSeq(cur, 1, Len(cur) - 1) ELSE cur>>
              \o LinesFrom(Tail(text), <<>>)
         ELSE LinesFrom(Tail(text), Append(cur, Head(text)))

text_at_center(sc, center, text) ==
    LET lines == IF text = <<>> THEN << <<>> >> ELSE LinesFrom(text, <<>>)
        c == to_ixy(sc, center)
        cx == c[1]
        cy == c[2]
        n == Len(lines)
        start_y == cy - TruncDiv(n - 1, 2)
    IN Concat([i \in 1..n |->
                 LET line == lines[i]
                     start_x == cx - TruncDiv(Len(line), 2)
                 IN [j \in 1..Len(line) |-> set(start_x + j - 1, start_y + i - 1, line[j])]])

head_char(dx, dy) ==
    IF Abs(dx) >= Abs(dy) THEN (IF dx >= 0 THEN ">" ELSE "<")
    ELSE IF dy >= 0 THEN "v" ELSE "^"

PointSub(p, q) == Pt(p.x - q.x, p.y - q.y)

(***************************************************************************)
(* The draw calls of RenderBackend, as the writes they make.  term and     *)
(* colors are self.is_terminal and self.use_colors; every call first sets  *)
(* self.scale to look.font_size.  A style is [fill_color, font_size]: the  *)
(* other fields of StyleAttr, and the properties argument, are not read.   *)
(***************************************************************************)
FillColor(colors, look) ==
    IF colors THEN style_color_to_term_color(look.fill_color) ELSE NoColor

\* Mutant of draw_rect: a clip handle restricts the writes to the cells of its
\* clip region.
draw_rect_clipped(term, colors, xy, size, look, clip) ==
    LET sc == look.font_size
        all == (IF look.fill_color # NoFill /\ term
                THEN rect_fill(sc, xy, size, "█", FillColor(colors, look))
                ELSE <<>>)
               \o rect_outline(sc, xy, size)
        inside(wr) ==
            LET region == clips[clip + 1]
                o == to_ixy(sc, region[1])
            IN /\ wr.ix >= o[1]
               /\ wr.ix < o[1] + RoundedExtent(sc, region[2].x)
               /\ wr.iy >= o[2]
               /\ wr.iy < o[2] + RoundedExtent(sc, region[2].y)
    IN IF clip = NoClip THEN all ELSE SelectSeq(all, inside)

\* Mutant of draw_rect: the fill does not depend on the terminal flag.
draw_rect_fill_anywhere(term, colors, xy, size, look, clip) ==
    LET sc == look.font_size
    IN (IF look.fill_color # NoFill
        THEN rect_fill(sc, xy, size, "█", FillColor(colors, look))
        ELSE <<>>)
       \o rect_outline(sc, xy, size)

\* Mutant of draw_rect: the outline is drawn first, the fill over it.
draw_rect_outline_first(term, colors, xy, size, look, clip) ==
    LET sc == look.font_size
    IN rect_outline(sc, xy, size)
       \o (IF look.fill_color # NoFill /\ term
           THEN rect_fill(sc, xy, size, "█", FillColor(colors, look))
           ELSE <<>>)

draw_rect(term, colors, xy, size, look, clip) ==
    LET sc == look.font_size
    IN (IF look.fill_color # NoFill /\ term
        THEN rect_fill(sc, xy, size, "█", FillColor(colors, look))
        ELSE <<>>)
       \o rect_outline(sc, xy, size)

draw_line(start, stop, look) ==
    draw_line_segment(look.font_size, start, stop, get_line_char(start, stop))

draw_circle(term, colors, xy, size, look) ==
    LET sc == look.font_size
    IN (IF look.fill_color # NoFill /\ term
        THEN ellipse_fill(sc, xy, size, "●", FillColor(colors, look))
        ELSE <<>>)
       \o ellipse_outline(sc, xy, size)

draw_text(xy, text, look) == text_at_center(look.font_size, xy, text)

\* path is a sequence of <<anchor, control>> pairs; head is <<bool, bool>>.
draw_arrow(path, dashed, head, look, text) ==
    IF path = <<>> THEN <<>>
    ELSE LET sc == look.font_size
             anchors == [i \in 1..Len(path) |-> path[i][1]]
             n == Len(anchors)
             seg_char == IF dashed THEN "." ELSE "*"
             startHead ==
                 IF n >= 2 /\ head[1]
                 THEN LET dir == PointSub(anchors[2], anchors[1])
                          p == to_ixy(sc, anchors[1])
                      IN <<set(p[1], p[2], head_char(dir.x, dir.y))>>
                 ELSE <<>>
             endHead ==
                 IF n >= 2 /\ head[2]
                 THEN LET dir == PointSub(anchors[n], anchors[n - 1])
                          p == to_ixy(sc, anchors[n])
                      IN <<set(p[1], p[2], head_char(dir.x, dir.y))>>
                 ELSE <<>>
             label ==
                 IF text # <<>>
                 THEN text_at_center(sc, anchors[(n \div 2) + 1], text)
                 ELSE <<>>
         IN draw_polyline(sc, anchors, seg_char) \o startHead \o endHead \o label

(***************************************************************************)
(* Inputs of the calls.  Coordinates are multiples of 7 and font sizes 7   *)
(* and 14, so that mapped coordinates fall on integers and on halves.      *)
(***************************************************************************)
Look(fill, font) == [fill_color |-> fill, font_size |-> font]

RectArgs ==
    { [xy |-> Pt(0, 0), size |-> Pt(56, 56), look |-> Look(16711680, 14)],
      [xy |-> Pt(7, 7), size |-> Pt(21, 35), look |-> Look(65280, 14)],
      [xy |-> Pt(14, 0), size |-> Pt(42, 14), look |-> Look(NoFill, 14)],
      [xy |-> Pt(-14, -14), size |-> Pt(42, 42), look |-> Look(16711680, 14)],
      [xy |-> Pt(-42, -28), size |-> Pt(28, 14), look |-> Look(NoFill, 14)],
      [xy |-> Pt(14, 14), size |-> Pt(0, 28), look |-> Look(16711680, 14)],
      [xy |-> Pt(7, 0), size |-> Pt(21, 21), look |-> Look(65280, 7)],
      [xy |-> Pt(0, 14), size |-> Pt(14, 28), look |-> Look(NoFill, 14)],
      [xy |-> Pt(21, 0), size |-> Pt(35, 28), look |-> Look(NoFill, 14)],
      [xy |-> Pt(0, 0), size |-> Pt(28, -14), look |-> Look(65280, 14)],
      [xy |-> Pt(0, 0), size |-> Pt(42, 14), look |-> Look(16711680, 14)],
      [xy |-> Pt(14, 0), size |-> Pt(14, 42), look |-> Look(65280, 14)] }

CircleArgs ==
    { [xy |-> Pt(14, 14), size |-> Pt(28, 28), look |-> Look(65280, 14)],
      [xy |-> Pt(28, 28), size |-> Pt(56, 56), look |-> Look(NoFill, 14)],
      [xy |-> Pt(14, 14), size |-> Pt(21, 21), look |-> Look(16711680, 7)],
      [xy |-> Pt(0, 0), size |-> Pt(0, 28), look |-> Look(16711680, 14)],
      [xy |-> Pt(-14, 14), size |-> Pt(28, 28), look |-> Look(16711680, 14)] }

LineArgs ==
    { [start |-> Pt(0, 0), stop |-> Pt(42, 0), look |-> Look(NoFill, 14)],
      [start |-> Pt(14, 0), stop |-> Pt(14, 42), look |-> Look(16711680, 14)],
      [start |-> Pt(0, 0), stop |-> Pt(42, 28), look |-> Look(NoFill, 14)],
      [start |-> Pt(42, 0), stop |-> Pt(-14, 28), look |-> Look(NoFill, 14)],
      [start |-> Pt(0, 0), stop |-> Pt(7, 21), look |-> Look(NoFill, 7)] }

TextArgs ==
    { [xy |-> Pt(14, 14), text |-> <<"a", "\n", "b", "c">>, look |-> Look(NoFill, 14)],
      [xy |-> Pt(28, 0), text |-> <<"x", " ">>, look |-> Look(NoFill, 14)],
      [xy |-> Pt(0, 0), text |-> <<"█">>, look |-> Look(NoFill, 14)],
      [xy |-> Pt(0, 0), text |-> <<>>, look |-> Look(NoFill, 7)] }

Anchor(x, y) == <<Pt(x, y), Pt(x, y)>>

ArrowArgs ==
    { [path |-> <<>>, dashed |-> FALSE, head |-> <<TRUE, TRUE>>,
       look |-> Look(NoFill, 14), text |-> <<"a">>],
      [path |-> <<Anchor(0, 0), Anchor(42, 0)>>, dashed |-> FALSE,
       head |-> <<FALSE, TRUE>>, look |-> Look(NoFill, 14), text |-> <<>>],
      [path |-> <<Anchor(0, 28), Anchor(28, 0), Anchor(28, 28)>>, dashed |-> TRUE,
       head |-> <<TRUE, TRUE>>, look |-> Look(16711680, 14), text |-> <<"a">>],
      [path |-> <<Anchor(14, 14)>>, dashed |-> FALSE, head |-> <<TRUE, TRUE>>,
       look |-> Look(NoFill, 7), text |-> <<"h", "i">>] }

ClipArgs ==
    { [xy |-> Pt(0, 0), size |-> Pt(14, 14), rounded_px |-> 0],
      [xy |-> Pt(14, 14), size |-> Pt(28, 28), rounded_px |-> 2] }

\* Option<ClipHandle>: none, or a handle create_clip has issued.
ClipChoices == {NoClip} \cup (0..(Len(clips) - 1))

(***************************************************************************)
(* The writer.                                                             *)
(***************************************************************************)
\* The writes of ws at non-negative coordinates, by position.
Stored(ws) == {i \in DOMAIN ws : ws[i].ix >= 0 /\ ws[i].iy >= 0}

\* The largest x (y) among them, or m where none is larger.
WritesMaxX(ws, m) ==
    LET xs == {ws[i].ix : i \in Stored(ws)} \cup {m}
    IN CHOOSE x \in xs : \A other \in xs : other <= x

WritesMaxY(ws, m) ==
    LET ys == {ws[i].iy : i \in Stored(ws)} \cup {m}
    IN CHOOSE y \in ys : \A other \in ys : other <= y

\* No draw_line_segment call is run step by step.
NoSegment == [pc |-> "idle"]

\* ASCIIWriter::new, new_with_terminal_setting, new_with_color_setting.
Fresh(ctor, term, colors, sc) ==
    /\ grid = <<>>
    /\ width = 0
    /\ height = 0
    /\ scale = sc
    /\ clips = <<>>
    /\ is_terminal = term
    /\ use_colors = colors
    /\ panicked = FALSE
    /\ last = [op |-> ctor]
    /\ writes = <<>>
    /\ fillText = FALSE
    /\ out = <<>>
    /\ ret = NoClip
    /\ ncalls = 0
    /\ maxX = -1
    /\ maxY = -1
    /\ seg = NoSegment

\* atty::is(Stdout) is either answer.
new == \E atty \in BOOLEAN : Fresh("new", atty, atty, 20)

new_with_terminal_setting == \E t \in BOOLEAN : Fresh("new_with_terminal_setting", t, t, 6)

new_with_color_setting ==
    \E t \in BOOLEAN, c \in BOOLEAN : Fresh("new_with_color_setting", t, c, 6)

Init == new \/ new_with_terminal_setting \/ new_with_color_setting

FillGlyphs == {"█", "●"}

\* A draw call with the style's font size sc that makes the writes ws; text is
\* the text it draws (draw_text, the label of draw_arrow), <<>> when it draws none.
Draw(ws, sc, call, text) ==
    LET W == ApplyWrites([grid |-> grid, width |-> width, height |-> height,
                          panicked |-> panicked], ws)
    IN /\ scale' = sc
       /\ grid' = W.grid
       /\ width' = W.width
       /\ height' = W.height
       /\ panicked' = W.panicked
       /\ last' = call
       /\ writes' = ws
       /\ fillText' = (fillText \/ \E i \in DOMAIN text : text[i] \in FillGlyphs)
       /\ out' = <<>>
       /\ ncalls' = ncalls + 1
       /\ maxX' = WritesMaxX(ws, maxX)
       /\ maxY' = WritesMaxY(ws, maxY)
       /\ UNCHANGED <<clips, is_terminal, use_colors, ret, seg>>

\* The &mut self calls: MaxCalls of them at most, none after a panic.
DrawRect ==
    /\ ncalls < MaxCalls
    /\ ~panicked
    /\ \E a \in RectArgs, clip \in ClipChoices :
           Draw(draw_rect(is_terminal, use_colors, a.xy, a.size, a.look, clip),
                a.look.font_size,
                [op |-> "draw_rect", xy |-> a.xy, size |-> a.size, look |-> a.look,
                 clip |-> clip],
                <<>>)

DrawLine ==
    /\ ncalls < MaxCalls
    /\ ~panicked
    /\ \E a \in LineArgs :
           Draw(draw_line(a.start, a.stop, a.look), a.look.font_size,
                [op |-> "draw_line", start |-> a.start, stop |-> a.stop, look |-> a.look],
                <<>>)

DrawCircle ==
    /\ ncalls < MaxCalls
    /\ ~panicked
    /\ \E a \in CircleArgs :
           Draw(draw_circle(is_terminal, use_colors, a.xy, a.size, a.look),
                a.look.font_size,
                [op |-> "draw_circle", xy |-> a.xy, size |-> a.size, look |-> a.look],
                <<>>)

DrawText ==
    /\ ncalls < MaxCalls
    /\ ~panicked
    /\ \E a \in TextArgs :
           Draw(draw_text(a.xy, a.text, a.look), a.look.font_size,
                [op |-> "draw_text", xy |-> a.xy, text |-> a.text, look |-> a.look],
                a.text)

DrawArrow ==
    /\ ncalls < MaxCalls
    /\ ~panicked
    /\ \E a \in ArrowArgs :
           Draw(draw_arrow(a.path, a.dashed, a.head, a.look, a.text), a.look.font_size,
                [op |-> "draw_arrow", path |-> a.path, dashed |-> a.dashed,
                 head |-> a.head, look |-> a.look, text |-> a.text],
                IF a.path = <<>> THEN <<>> ELSE a.text)

CreateClip ==
    /\ ncalls < MaxCalls
    /\ ~panicked
    /\ \E a \in ClipArgs :
        /\ clips' = Append(clips, <<a.xy, a.size, a.rounded_px>>)
        /\ ret' = Len(clips') - 1
        /\ last' = [op |-> "create_clip", xy |-> a.xy, size |-> a.size,
                    rounded_px |-> a.rounded_px]
        /\ writes' = <<>>
        /\ out' = <<>>
        /\ ncalls' = ncalls + 1
        /\ UNCHANGED <<grid, width, height, scale, is_terminal, use_colors,
                       panicked, fillText, maxX, maxY, seg>>

SetUseColors ==
    /\ ncalls < MaxCalls
    /\ ~panicked
    /\ \E b \in BOOLEAN :
        /\ use_colors' = (b /\ is_terminal)
        /\ last' = [op |-> "set_use_colors", use_colors |-> b]
        /\ writes' = <<>>
        /\ out' = <<>>
        /\ ncalls' = ncalls + 1
        /\ UNCHANGED <<grid, width, height, scale, clips, is_terminal,
                       panicked, fillText, ret, maxX, maxY, seg>>

\* Mutant of Finalize: the rows are trimmed in place while they are serialized.
FinalizeTrimmingInPlace ==
    /\ ~panicked
    /\ out' = finalize(grid, is_terminal, use_colors)
    /\ grid' = [r \in DOMAIN grid |-> SubSeq(grid[r], 1, TrimEnd(grid[r], Len(grid[r])))]
    /\ last' = [op |-> "finalize", again |-> (last.op = "finalize")]
    /\ writes' = <<>>
    /\ UNCHANGED <<width, height, scale, clips, is_terminal, use_colors,
                   panicked, fillText, ret, ncalls, maxX, maxY, seg>>

\* finalize(&self): again records that the call before it was finalize too.
Finalize ==
    /\ ~panicked
    /\ out' = finalize(grid, is_terminal, use_colors)
    /\ last' = [op |-> "finalize", again |-> (last.op = "finalize")]
    /\ writes' = <<>>
    /\ UNCHANGED <<grid, width, height, scale, clips, is_terminal, use_colors,
                   panicked, fillText, ret, ncalls, maxX, maxY, seg>>

Next ==
    \/ DrawRect
    \/ DrawLine
    \/ DrawCircle
    \/ DrawText
    \/ DrawArrow
    \/ CreateClip
    \/ SetUseColors
    \/ Finalize

Spec == Init /\ [][Next]_vars

(***************************************************************************)
(* draw_line_segment step by step: one action per iteration of its loop,   *)
(* on a new writer, inside a draw_line call with the style LineLook.        *)
(***************************************************************************)
LineLook == Look(NoFill, 2)

LinePoints == {Pt(x, y) : x \in -MaxCoord..MaxCoord, y \in -MaxCoord..MaxCoord}

\* The locals of draw_line_segment when it enters its loop.
SegmentStart(sc, p0, p1, ch) ==
    LET a == to_ixy(sc, p0)
        b == to_ixy(sc, p1)
        dx == Abs(b[1] - a[1])
        dy == -Abs(b[2] - a[2])
    IN [pc |-> "loop", p0 |-> p0, p1 |-> p1, ch |-> ch,
        x0 |-> a[1], y0 |-> a[2], x1 |-> b[1], y1 |-> b[2],
        dx |-> dx, sx |-> IF a[1] < b[1] THEN 1 ELSE -1,
        dy |-> dy, sy |-> IF a[2] < b[2] THEN 1 ELSE -1,
        err |-> dx + dy]

\* Mutant of LoopBody: an iteration steps along one axis only.
LoopBodyOneAxis(s) ==
    IF s.x0 = s.x1 /\ s.y0 = s.y1 THEN [s EXCEPT !.pc = "done"]
    ELSE LET e2 == 2 * s.err
             stepX == e2 >= s.dy
             stepY == ~stepX /\ e2 <= s.dx
         IN [s EXCEPT !.x0 = IF stepX THEN s.x0 + s.sx ELSE s.x0,
                      !.y0 = IF stepY THEN s.y0 + s.sy ELSE s.y0,
                      !.err = IF stepX THEN s.err + s.dy
                              ELSE IF stepY THEN s.err + s.dx ELSE s.err]

\* One iteration of the loop after its self.set(x0, y0, ch): the break, or
\* the step to the next cell.
LoopBody(s) ==
    IF s.x0 = s.x1 /\ s.y0 = s.y1 THEN [s EXCEPT !.pc = "done"]
    ELSE LET e2 == 2 * s.err
             stepX == e2 >= s.dy
             err1 == IF stepX THEN s.err + s.dy ELSE s.err
             stepY == e2 <= s.dx
         IN [s EXCEPT !.x0 = IF stepX THEN s.x0 + s.sx ELSE s.x0,
                      !.y0 = IF stepY THEN s.y0 + s.sy ELSE s.y0,
                      !.err = IF stepY THEN err1 + s.dx ELSE err1]

\* draw_line has set the scale and chosen the glyph; the loop is entered.
LineInit ==
    \E p0 \in LinePoints, p1 \in LinePoints :
        /\ grid = <<>>
        /\ width = 0
        /\ height = 0
        /\ scale = LineLook.font_size
        /\ clips = <<>>
        /\ is_terminal = FALSE
        /\ use_colors = FALSE
        /\ panicked = FALSE
        /\ last = [op |-> "draw_line", start |-> p0, stop |-> p1,
                   look |-> LineLook]
        /\ writes = <<>>
        /\ fillText = FALSE
        /\ out = <<>>
        /\ ret = NoClip
        /\ ncalls = 1
        /\ maxX = -1
        /\ maxY = -1
        /\ seg = SegmentStart(LineLook.font_size, p0, p1, get_line_char(p0, p1))

LineStep ==
    /\ seg.pc = "loop"
    /\ ~panicked
    /\ LET w == set(seg.x0, seg.y0, seg.ch)
           W == ApplyWrites([grid |-> grid, width |-> width, height |-> height,
                             panicked |-> panicked], <<w>>)
       IN /\ grid' = W.grid
          /\ width' = W.width
          /\ height' = W.height
          /\ panicked' = W.panicked
          /\ writes' = Append(writes, w)
          /\ maxX' = WritesMaxX(<<w>>, maxX)
          /\ maxY' = WritesMaxY(<<w>>, maxY)
          /\ seg' = LoopBody(seg)
    /\ UNCHANGED <<scale, clips, is_terminal, use_colors, last, fillText, out, ret,
                   ncalls>>

LineNext == LineStep

\* The loop is sequential code: an iteration that can run does run.
LineSpec == LineInit /\ [][LineNext]_vars /\ WF_vars(LineStep)

(***************************************************************************)
(* Reading a serialized String back: its lines, and the glyphs and escape  *)
(* sequences of a line.                                                    *)
(***************************************************************************)
\* The k-th smallest member of a set of positions; 0 for k = 0.
KthOf(S, k) ==
    IF k = 0 THEN 0 ELSE CHOOSE i \in S : Cardinality({j \in S : j <= i}) = k

\* The lines of a String: the text before each "\n", and the text after the
\* last one where there is any.
SplitLines(str) ==
    LET nl == {i \in DOMAIN str : str[i] = "\n"}
        n == Cardinality(nl)
        rest == SubSeq(str, KthOf(nl, n) + 1, Len(str))
    IN [k \in 1..n |-> SubSeq(str, KthOf(nl, k - 1) + 1, KthOf(nl, k) - 1)]
       \o (IF rest = <<>> THEN <<>> ELSE <<rest>>)

\* Position i of a line is inside an escape sequence: one runs from an ESC up
\* to the first "m" after it.
InEscape(line, i) ==
    \E j \in 1..i : line[j] = ESC /\ \A k \in j..(i - 1) : line[k] # "m"

\* A line as its glyphs, each with the escape text emitted right before it, and
\* the escape text after the last glyph.
Parsed(line) ==
    LET gl == {i \in DOMAIN line : ~InEscape(line, i)}
        n == Cardinality(gl)
    IN [items |-> [k \in 1..n |->
                     [esc |-> SubSeq(line, KthOf(gl, k - 1) + 1, KthOf(gl, k) - 1),
                      ch |-> line[KthOf(gl, k)]]],
        trail |-> SubSeq(line, KthOf(gl, n) + 1, Len(line))]

Contains(str, ch) == \E i \in DOMAIN str : str[i] = ch

HasFillGlyph(str) == \E i \in DOMAIN str : str[i] \in FillGlyphs

Output == finalize(grid, is_terminal, use_colors)

DrawOps == {"draw_rect", "draw_line", "draw_circle", "draw_text", "draw_arrow"}

\* The cell (x, y) of a grid, blank outside of it.
CellAt(g, x, y) ==
    IF y + 1 \in DOMAIN g /\ x + 1 \in DOMAIN g[y + 1] THEN g[y + 1][x + 1] ELSE Blank

(***************************************************************************)
(* C1.  finalize() is read-only and idempotent: a call of finalize leaves  *)
(* the grid, the width, the height, the scale, the clip list and both      *)
(* flags as they were, and a call that follows a call of finalize with no  *)
(* other call in between returns the same String.                          *)
(***************************************************************************)
C1_FinalizeReadOnlyIdempotent ==
    [][(last'.op = "finalize") =>
          /\ UNCHANGED <<grid, width, height, scale, clips, is_terminal, use_colors>>
          /\ (last.op = "finalize" => out' = out)
          /\ out' = finalize(grid', is_terminal', use_colors')]_vars

\* finalize was called twice in a row on a grid that holds glyphs.
C1_Witness ==
    /\ last.op = "finalize"
    /\ last.again
    /\ height > 0
    /\ \E i \in DOMAIN out : out[i] \notin {" ", "\n"}

(***************************************************************************)
(* C2.  On a writer whose terminal flag is off, as long as no drawn text   *)
(* held a fill glyph, no cell of the grid holds a fill glyph and the       *)
(* output of finalize holds none; and right after draw_rect of a rectangle *)
(* of rounded width and height >= 1 at a non-negative mapped origin the    *)
(* output holds the corner glyph "+".                                      *)
(***************************************************************************)
GridHasFillGlyph ==
    \E r \in DOMAIN grid : \E c \in DOMAIN grid[r] : grid[r][c][1] \in FillGlyphs

\* The mapped origin and the rounded extents of the rectangle of a draw_rect call.
RectBox(call) ==
    LET o == to_ixy(call.look.font_size, call.xy)
    IN [ix |-> o[1], iy |-> o[2],
        w |-> RoundedExtent(call.look.font_size, call.size.x),
        h |-> RoundedExtent(call.look.font_size, call.size.y)]

VisibleRect(call) ==
    /\ call.op = "draw_rect"
    /\ RectBox(call).w >= 1
    /\ RectBox(call).h >= 1
    /\ RectBox(call).ix >= 0
    /\ RectBox(call).iy >= 0

C2_NonTerminalNeverFills ==
    ~is_terminal =>
        /\ ~fillText => ~GridHasFillGlyph /\ ~HasFillGlyph(Output)
        /\ VisibleRect(last) =>
              /\ Contains(Output, "+")
              /\ CellAt(grid, RectBox(last).ix, RectBox(last).iy) = <<"+", NoColor>>

\* A rectangle with a fill colour was drawn, after another call, on a writer
\* whose terminal flag is off.
C2_Witness ==
    /\ ~is_terminal
    /\ ~fillText
    /\ ncalls = 2
    /\ VisibleRect(last)
    /\ last.look.fill_color # NoFill
    /\ RectBox(last).w > 2
    /\ RectBox(last).h > 2

(***************************************************************************)
(* C3.  Colour needs both flags: in a state where is_terminal or           *)
(* use_colors is false the output of finalize holds no escape byte, and    *)
(* the writes of a draw call made in such a state carry no colour and      *)
(* leave none in the cells they write.                                     *)
(***************************************************************************)
C3_ColourNeedsBothFlags ==
    ~(is_terminal /\ use_colors) =>
        /\ ~Contains(Output, ESC)
        /\ \A i \in DOMAIN writes :
              /\ writes[i].color = NoColor
              /\ (writes[i].ix >= 0 /\ writes[i].iy >= 0) =>
                    CellAt(grid, writes[i].ix, writes[i].iy)[2] = NoColor

GridHasColour ==
    \E r \in DOMAIN grid : \E c \in DOMAIN grid[r] : grid[r][c][2] # NoColor

\* Colours were switched off on a grid that holds coloured cells.
C3_Witness ==
    /\ is_terminal
    /\ ~use_colors
    /\ GridHasColour
    /\ HasFillGlyph(Output)

\* A fill was drawn in terminal mode with colours off.
C3_WitnessFill ==
    /\ is_terminal
    /\ ~use_colors
    /\ last.op \in {"draw_rect", "draw_circle"}
    /\ \E i \in DOMAIN writes : writes[i].ch \in FillGlyphs

(***************************************************************************)
(* C4.  uses_colors() implies is_terminal().  The setter keeps it, the     *)
(* constructor new_with_color_setting(false, true) does not.               *)
(***************************************************************************)
C4_ColoursImplyTerminal == use_colors => is_terminal

\* A call of set_use_colors establishes it.
C4_AfterSetter ==
    last.op = "set_use_colors" => (use_colors => is_terminal)

(***************************************************************************)
(* C5.  finalize emits one line per row, no line ends with a blank (escape *)
(* sequences aside), and a row of blank cells only is an empty line, in    *)
(* plain and in coloured mode.                                             *)
(***************************************************************************)
LineGlyphs(line) == [i \in DOMAIN Parsed(line).items |-> Parsed(line).items[i].ch]

C5_NoTrailingBlanks ==
    LET lines == SplitLines(Output)
    IN /\ Len(lines) = Len(grid)
       /\ \A r \in DOMAIN grid :
             LET glyphs == LineGlyphs(lines[r])
             IN /\ glyphs # <<>> => glyphs[Len(glyphs)] # " "
                /\ (\A c \in DOMAIN grid[r] : grid[r][c] = Blank) => lines[r] = <<>>

\* In coloured mode a row holds a coloured cell and ends with blank cells, and
\* another row holds blank cells only.
C5_Witness ==
    /\ is_terminal
    /\ use_colors
    /\ \E r \in DOMAIN grid :
          /\ grid[r][Len(grid[r])] = Blank
          /\ \E c \in DOMAIN grid[r] : grid[r][c][2] # NoColor
    /\ \E r \in DOMAIN grid : \A c \in DOMAIN grid[r] : grid[r][c] = Blank

\* The same in plain mode.
C5_WitnessPlain ==
    /\ ~use_colors
    /\ \E r \in DOMAIN grid :
          /\ grid[r][Len(grid[r])] = Blank
          /\ \E c \in DOMAIN grid[r] : grid[r][c][1] # " "

(***************************************************************************)
(* C6.  As claimed: in coloured mode the line of every row with a coloured *)
(* cell before the trim point ends with the reset sequence, and a reset    *)
(* sequence is emitted at every colour change between consecutive cells.   *)
(* The code resets only a colour that is in effect.                        *)
(***************************************************************************)
StartsWith(str, prefix) ==
    Len(str) >= Len(prefix) /\ SubSeq(str, 1, Len(prefix)) = prefix

EndsWith(str, suffix) ==
    Len(str) >= Len(suffix)
    /\ SubSeq(str, Len(str) - Len(suffix) + 1, Len(str)) = suffix

\* The number of cells of a row up to its last non-blank glyph.
TrimPoint(row) ==
    IF \E c \in DOMAIN row : row[c][1] # " "
    THEN CHOOSE c \in DOMAIN row :
            row[c][1] # " " /\ \A d \in DOMAIN row : d > c => row[d][1] = " "
    ELSE 0

C6_ResetOnEveryColouredLine ==
    (is_terminal /\ use_colors) =>
        \A r \in DOMAIN grid :
            LET row == grid[r]
                end == TrimPoint(row)
                line == SplitLines(Output)[r]
                items == Parsed(line).items
            IN /\ (\E c \in 1..end : row[c][2] # NoColor) => EndsWith(line, ResetSeq)
               /\ \A c \in 1..(end - 1) :
                     row[c][2] # row[c + 1][2] => StartsWith(items[c + 1].esc, ResetSeq)

(***************************************************************************)
(* C6, amended.  In coloured mode the line of every row whose last cell    *)
(* before the trim point carries a colour ends with the reset sequence,    *)
(* and the line of any other row ends with no escape sequence; a reset     *)
(* sequence is emitted at every colour change between consecutive cells    *)
(* whose first cell carries a colour, and none at a change from no colour  *)
(* to a colour.                                                            *)
(***************************************************************************)
C6_ResetWhereColourInEffect ==
    (is_terminal /\ use_colors) =>
        \A r \in DOMAIN grid :
            LET row == grid[r]
                end == TrimPoint(row)
                line == SplitLines(Output)[r]
                items == Parsed(line).items
                trail == Parsed(line).trail
            IN /\ Len(items) = end
               /\ (end >= 1 /\ row[end][2] # NoColor) =>
                     trail = ResetSeq /\ EndsWith(line, ResetSeq)
               /\ (end = 0 \/ row[end][2] = NoColor) => trail = <<>>
               /\ \A c \in 1..(end - 1) :
                     /\ (row[c][2] # NoColor /\ row[c + 1][2] # row[c][2]) =>
                           StartsWith(items[c + 1].esc, ResetSeq)
                     /\ (row[c][2] = NoColor /\ row[c + 1][2] # NoColor) =>
                           ~StartsWith(items[c + 1].esc, ResetSeq)

\* In coloured mode a row ends with a coloured cell, and in a row a coloured
\* cell is followed by an uncoloured glyph.
C6_Witness ==
    /\ is_terminal
    /\ use_colors
    /\ \E r \in DOMAIN grid :
          TrimPoint(grid[r]) >= 1 /\ grid[r][TrimPoint(grid[r])][2] # NoColor
    /\ \E r \in DOMAIN grid : \E c \in 1..(TrimPoint(grid[r]) - 1) :
          grid[r][c][2] # NoColor /\ grid[r][c + 1][2] = NoColor

\* In coloured mode a cell of one colour is followed by a cell of another.
C6_WitnessTwoColours ==
    /\ is_terminal
    /\ use_colors
    /\ \E r \in DOMAIN grid : \E c \in 1..(TrimPoint(grid[r]) - 1) :
          /\ grid[r][c][2] # NoColor
          /\ grid[r][c + 1][2] # NoColor
          /\ grid[r][c][2] # grid[r][c + 1][2]

(***************************************************************************)
(* C7.  Clip regions are recorded and never enforced: create_clip returns  *)
(* the number of regions recorded before it, appends its region to the     *)
(* clip list, which no other call changes, and leaves the grid, the width  *)
(* and the height alone; draw_rect with a clip handle leaves the grid that *)
(* draw_rect with no clip handle leaves.                                   *)
(***************************************************************************)
C7_ClipsRecordedNeverEnforced ==
    [][/\ (last'.op = "create_clip") =>
             /\ ret' = Len(clips)
             /\ clips' = Append(clips, <<last'.xy, last'.size, last'.rounded_px>>)
             /\ \A k \in DOMAIN clips : clips'[k] = clips[k]
             /\ UNCHANGED <<grid, width, height>>
       /\ (last'.op # "create_clip") => UNCHANGED <<clips, ret>>
       /\ (last'.op = "draw_rect") =>
             LET W == ApplyWrites([grid |-> grid, width |-> width, height |-> height,
                                   panicked |-> panicked],
                                  draw_rect(is_terminal, use_colors, last'.xy,
                                            last'.size, last'.look, NoClip))
             IN grid' = W.grid /\ width' = W.width /\ height' = W.height]_vars

\* A rectangle that reaches beyond the clip region of its clip handle was drawn.
C7_Witness ==
    /\ last.op = "draw_rect"
    /\ last.clip # NoClip
    /\ clips[last.clip + 1][2] = Pt(14, 14)
    /\ VisibleRect(last)
    /\ RectBox(last).w > 2

\* The second call of create_clip returned the handle 1.
C7_WitnessSecondClip ==
    /\ last.op = "create_clip"
    /\ Len(clips) = 2
    /\ ret = 1
    /\ clips[1] # clips[2]

(***************************************************************************)
(* C8.  Writes at a negative mapped x or y are discarded: a draw call      *)
(* changes only cells it writes at coordinates that are both non-negative, *)
(* grows the grid only to cover those, and changes nothing when every      *)
(* write of it has a negative coordinate.                                  *)
(***************************************************************************)
NegativeWrite(wr) == wr.ix < 0 \/ wr.iy < 0

C8_NegativeWritesDiscarded ==
    [][(last'.op \in DrawOps) =>
          /\ (\A i \in DOMAIN writes' : NegativeWrite(writes'[i])) =>
                UNCHANGED <<grid, width, height>>
          /\ \A r \in DOMAIN grid' : \A c \in DOMAIN grid'[r] :
                grid'[r][c] # CellAt(grid, c - 1, r - 1) =>
                   \E i \in DOMAIN writes' :
                      writes'[i].ix = c - 1 /\ writes'[i].iy = r - 1
          /\ Len(grid') = height'
          /\ width' = Max(width, WritesMaxX(writes', -1) + 1)
          /\ height' = Max(height, WritesMaxY(writes', -1) + 1)]_vars

\* A shape that lies partly at negative coordinates was drawn.
C8_Witness ==
    /\ last.op \in {"draw_rect", "draw_circle"}
    /\ \E i \in DOMAIN writes : NegativeWrite(writes[i])
    /\ \E i \in DOMAIN writes : ~NegativeWrite(writes[i])
    /\ ncalls = 2

\* A shape that lies entirely at negative coordinates was drawn on a grid that
\* holds glyphs.
C8_WitnessAllNegative ==
    /\ last.op \in DrawOps
    /\ writes # <<>>
    /\ \A i \in DOMAIN writes : NegativeWrite(writes[i])
    /\ width > 0

(***************************************************************************)
(* C9.  After every call the width is 1 + the largest x and the height     *)
(* 1 + the largest y of the writes made so far at coordinates that are     *)
(* both non-negative (0 when there was none), and no call decreases the    *)
(* width or the height.                                                    *)
(***************************************************************************)
C9_ExtentsTrackWrites ==
    [][/\ width' = maxX' + 1
       /\ height' = maxY' + 1
       /\ width' >= width
       /\ height' >= height]_vars

\* The second draw call wrote within the extents the first one left.
C9_Witness ==
    /\ ncalls = 2
    /\ last.op \in DrawOps
    /\ WritesMaxX(writes, -1) >= 0
    /\ WritesMaxX(writes, -1) < maxX
    /\ WritesMaxY(writes, -1) < maxY

(***************************************************************************)
(* C10.  draw_rect at a non-negative mapped origin (ix, iy) with rounded   *)
(* width w and height h writes nothing when w <= 0 or h <= 0, with or      *)
(* without a fill; otherwise, without a fill, it writes exactly the cells  *)
(* of the border of the w x h box at (ix, iy): "+" at the four corners,    *)
(* "-" between the corners of the top and bottom rows, "|" between the     *)
(* corners of the left and right columns, all without colour.              *)
(***************************************************************************)
OnBorder(b, x, y) ==
    /\ x >= b.ix
    /\ x <= b.ix + b.w - 1
    /\ y >= b.iy
    /\ y <= b.iy + b.h - 1
    /\ (x = b.ix \/ x = b.ix + b.w - 1 \/ y = b.iy \/ y = b.iy + b.h - 1)

OutlineGlyph(b, x, y) ==
    IF (x = b.ix \/ x = b.ix + b.w - 1) /\ (y = b.iy \/ y = b.iy + b.h - 1) THEN "+"
    ELSE IF y = b.iy \/ y = b.iy + b.h - 1 THEN "-"
    ELSE "|"

C10_RectOutlineReference ==
    [][(last'.op = "draw_rect" /\ RectBox(last').ix >= 0 /\ RectBox(last').iy >= 0) =>
          LET b == RectBox(last')
              nofill == last'.look.fill_color = NoFill \/ ~is_terminal
          IN /\ (b.w <= 0 \/ b.h <= 0) =>
                   writes' = <<>> /\ UNCHANGED <<grid, width, height>>
             /\ (b.w >= 1 /\ b.h >= 1 /\ nofill) =>
                   /\ width' = Max(width, b.ix + b.w)
                   /\ height' = Max(height, b.iy + b.h)
                   /\ {<<writes'[i].ix, writes'[i].iy>> : i \in DOMAIN writes'}
                         = {<<x, y>> \in (b.ix..(b.ix + b.w - 1)) \X (b.iy..(b.iy + b.h - 1)) :
                               OnBorder(b, x, y)}
                   /\ \A r \in DOMAIN grid' : \A c \in DOMAIN grid'[r] :
                         grid'[r][c] = IF OnBorder(b, c - 1, r - 1)
                                       THEN <<OutlineGlyph(b, c - 1, r - 1), NoColor>>
                                       ELSE CellAt(grid, c - 1, r - 1)]_vars

\* A rectangle wider and higher than 2 was drawn without a fill over a grid that
\* held glyphs.
C10_Witness ==
    /\ last.op = "draw_rect"
    /\ ncalls = 2
    /\ VisibleRect(last)
    /\ RectBox(last).w > 2
    /\ RectBox(last).h > 2
    /\ (last.look.fill_color = NoFill \/ ~is_terminal)
    /\ \A i \in DOMAIN writes : writes[i].ch \in {"+", "-", "|"}

\* A rectangle of rounded width 0 was drawn with a fill colour in terminal mode.
C10_WitnessEmpty ==
    /\ last.op = "draw_rect"
    /\ RectBox(last).w = 0
    /\ RectBox(last).h >= 1
    /\ last.look.fill_color # NoFill
    /\ is_terminal
    /\ width > 0

\* Rectangles of rounded width 1 and of rounded width 2 were drawn without a fill.
C10_WitnessNarrow ==
    /\ last.op = "draw_rect"
    /\ VisibleRect(last)
    /\ RectBox(last).w <= 2
    /\ RectBox(last).h > 2
    /\ ~is_terminal

(***************************************************************************)
(* C11.  draw_line_segment between two mapped end points (x0, y0) and      *)
(* (x1, y1) terminates and writes a gap-free run: the cells it visits      *)
(* start at (x0, y0), each next cell differs from the one before by at     *)
(* most 1 in x and at most 1 in y and is another cell, the run ends at     *)
(* (x1, y1) and has exactly max(|x1 - x0|, |y1 - y0|) + 1 cells, whatever  *)
(* the order of the end points, a single cell when they are equal; and it  *)
(* is the run that draw_line_segment makes within one draw call.           *)
(***************************************************************************)
\* Two cells next to each other, diagonals included.
Adjacent(ax, ay, bx, by) ==
    /\ Abs(ax - bx) <= 1
    /\ Abs(ay - by) <= 1
    /\ <<ax, ay>> # <<bx, by>>

\* max(|x1 - x0|, |y1 - y0|) + 1 of the mapped end points of a segment.
RunLength(sc, p0, p1) ==
    Max(Abs(to_ixy(sc, p1)[1] - to_ixy(sc, p0)[1]),
        Abs(to_ixy(sc, p1)[2] - to_ixy(sc, p0)[2])) + 1

C11_RunShape ==
    seg.pc # "idle" =>
        LET a == to_ixy(scale, seg.p0)
            b == to_ixy(scale, seg.p1)
            n == RunLength(scale, seg.p0, seg.p1)
            k == Len(writes)
        IN /\ k <= n
           /\ k >= 1 => writes[1].ix = a[1] /\ writes[1].iy = a[2]
           /\ \A i \in 1..(k - 1) :
                  Adjacent(writes[i].ix, writes[i].iy, writes[i + 1].ix, writes[i + 1].iy)
           /\ seg.pc = "loop" =>
                  /\ k < n
                  /\ k >= 1 => Adjacent(writes[k].ix, writes[k].iy, seg.x0, seg.y0)
           /\ seg.pc = "done" =>
                  /\ k = n
                  /\ writes[k].ix = b[1] /\ writes[k].iy = b[2]
                  /\ writes = draw_line_segment(scale, seg.p0, seg.p1, seg.ch)

C11_GapFreeRun == []C11_RunShape /\ <>(seg.pc = "done")

\* A finished run from right to left, slanted, longer in x than in y.
C11_Witness ==
    /\ seg.pc = "done"
    /\ seg.x1 < writes[1].ix - 2
    /\ seg.y1 # writes[1].iy
    /\ Abs(seg.y1 - writes[1].iy) < Abs(seg.x1 - writes[1].ix)
    /\ Len(writes) = Abs(seg.x1 - writes[1].ix) + 1

\* A finished run between equal end points: one cell.
C11_WitnessOneCell ==
    /\ seg.pc = "done"
    /\ Len(writes) = 1
    /\ seg.p0 # seg.p1

\* A finished steep run downwards that leaves the negative quadrant.
C11_WitnessSteep ==
    /\ seg.pc = "done"
    /\ writes[1].iy < 0
    /\ seg.y1 > 0
    /\ seg.dx > 0
    /\ -seg.dy > seg.dx + 1
    /\ height = seg.y1 + 1

(***************************************************************************)
(* C12.  The grid is rectangular and every write is in bounds.  In every   *)
(* reachable state the grid has exactly height rows, each of exactly width *)
(* cells, and no indexed store has gone out of bounds; ensure_size(x, y)   *)
(* on it, for x up to one past the width and y up to one past the height,  *)
(* leaves a rectangular grid with y < height and x < width; and so does    *)
(* the ensure_size of every write of every draw call, on the grid as the   *)
(* writes before it have left it, the first write into an empty grid and   *)
(* a write that adds rows and columns at once included.                    *)
(***************************************************************************)
Rectangular(W) ==
    /\ Len(W.grid) = W.height
    /\ \A r \in DOMAIN W.grid : Len(W.grid[r]) = W.width

\* ensure_size(x, y) on W makes room for the cell (x, y) and keeps the grid
\* rectangular.
MakesRoom(W, x, y) ==
    LET W1 == ensure_size(W, x, y)
    IN /\ y < W1.height
       /\ x < W1.width
       /\ Rectangular(W1)
       /\ y + 1 \in DOMAIN W1.grid
       /\ x + 1 \in DOMAIN W1.grid[y + 1]

\* The writer's fields the writes touch, as they are now.
Store == [grid |-> grid, width |-> width, height |-> height, panicked |-> panicked]

\* Every write of ws, made in order from W, finds room: the only write, or
\* those of the first half and then, from the grid they leave, the others.
RECURSIVE WritesFindRoom(_, _)
WritesFindRoom(W, ws) ==
    IF ws = <<>> THEN TRUE
    ELSE IF Len(ws) = 1
    THEN /\ clamp_nonneg(ws[1].ix, ws[1].iy) # <<>> => MakesRoom(W, ws[1].ix, ws[1].iy)
         /\ ~ApplyWrites(W, ws).panicked
         /\ Rectangular(ApplyWrites(W, ws))
    ELSE LET half == Len(ws) \div 2
             first == SubSeq(ws, 1, half)
         IN /\ WritesFindRoom(W, first)
            /\ WritesFindRoom(ApplyWrites(W, first), SubSeq(ws, half + 1, Len(ws)))

C12_RectangularNow ==
    /\ ~panicked
    /\ Rectangular(Store)
    /\ \A x \in 0..(width + 1), y \in 0..(height + 1) : MakesRoom(Store, x, y)

C12_GridRectangular ==
    []C12_RectangularNow /\ [][WritesFindRoom(Store, writes')]_vars

\* The first write of the first draw call, into the empty grid, added rows and
\* columns at once, and a later write of the call added rows only.
C12_Witness ==
    /\ ncalls = 1
    /\ writes # <<>>
    /\ writes[1].ix > 0
    /\ writes[1].iy > 0
    /\ \A i \in DOMAIN writes : writes[i].ix >= 0 /\ writes[i].iy >= 0
    /\ \E i \in DOMAIN writes :
           /\ \A j \in 1..(i - 1) : writes[j].iy < writes[i].iy
           /\ \E j \in 1..(i - 1) : writes[j].ix >= writes[i].ix
    /\ Rectangular(Store)
    /\ width > 2
    /\ height > 2

(***************************************************************************)
(* C13.  The rectangle fill is written before the outline and the outline  *)
(* takes precedence, uncoloured.  Right after draw_rect with a fill colour *)
(* on a writer in terminal mode, of rounded width w >= 1 and height h >= 1 *)
(* at a non-negative mapped origin: the call wrote the cells of the w x h  *)
(* box and no other, every "█" it wrote before every outline glyph; each   *)
(* border cell of the box holds its outline glyph "+", "-" or "|" with no  *)
(* colour; and each of the (w - 2) x (h - 2) interior cells, none when     *)
(* w <= 2 or h <= 2, holds "█", with the resolved colour when use_colors   *)
(* is true and with no colour otherwise.                                   *)
(***************************************************************************)
FilledRect(call) ==
    /\ VisibleRect(call)
    /\ call.look.fill_color # NoFill
    /\ is_terminal

\* The cells of a box.
BoxCells(b) ==
    {<<x, y>> : x \in b.ix..(b.ix + b.w - 1), y \in b.iy..(b.iy + b.h - 1)}

InteriorCells(b) == {c \in BoxCells(b) : ~OnBorder(b, c[1], c[2])}

C13_FillUnderOutline ==
    (last.op = "draw_rect" /\ FilledRect(last)) =>
        LET b == RectBox(last)
            fill == <<"█", IF use_colors
                           THEN style_color_to_term_color(last.look.fill_color)
                           ELSE NoColor>>
        IN /\ {<<writes[i].ix, writes[i].iy>> : i \in DOMAIN writes} = BoxCells(b)
           /\ \A i \in DOMAIN writes, j \in DOMAIN writes :
                  (writes[i].ch = "█" /\ writes[j].ch \in {"+", "-", "|"}) => i < j
           /\ \A c \in BoxCells(b) :
                  IF OnBorder(b, c[1], c[2])
                  THEN /\ CellAt(grid, c[1], c[2])[1] \in {"+", "-", "|"}
                       /\ CellAt(grid, c[1], c[2]) = <<OutlineGlyph(b, c[1], c[2]), NoColor>>
                  ELSE CellAt(grid, c[1], c[2]) = fill
           /\ Cardinality(InteriorCells(b)) = Max(b.w - 2, 0) * Max(b.h - 2, 0)
           /\ Cardinality({c \in BoxCells(b) : CellAt(grid, c[1], c[2])[1] = "█"})
                  = Max(b.w - 2, 0) * Max(b.h - 2, 0)

\* A filled rectangle with an interior, drawn in colour as the second call.
C13_Witness ==
    /\ last.op = "draw_rect"
    /\ FilledRect(last)
    /\ use_colors
    /\ ncalls = 2
    /\ RectBox(last).w > 2
    /\ RectBox(last).h > 2
    /\ \E c \in InteriorCells(RectBox(last)) :
           CellAt(grid, c[1], c[2])[2] \notin {NoColor}

\* A filled rectangle with an interior, drawn with colours off.
C13_WitnessNoColour ==
    /\ last.op = "draw_rect"
    /\ FilledRect(last)
    /\ ~use_colors
    /\ InteriorCells(RectBox(last)) # {}

\* A filled rectangle one cell wide: no interior.
C13_WitnessNoInterior ==
    /\ last.op = "draw_rect"
    /\ FilledRect(last)
    /\ RectBox(last).h > 2
    /\ RectBox(last).w = 1
    /\ \E i \in DOMAIN writes : writes[i].ch = "█"

\* A filled rectangle one cell high: no interior.
C13_WitnessFlat ==
    /\ last.op = "draw_rect"
    /\ FilledRect(last)
    /\ RectBox(last).h = 1
    /\ RectBox(last).w > 2
    /\ \E i \in DOMAIN writes : writes[i].ch = "█"

(***************************************************************************)
(* C14.  Coloured serialization is a run-length encoding and no colour     *)
(* leaks past a line end.  In coloured mode, in the line of every row cut  *)
(* at its trim point and starting from no colour: the glyphs are those of  *)
(* the cells; a colour-set escape ESC [ 3 d m, d the digit of the cell's   *)
(* colour, is emitted right before a cell exactly when the cell's colour   *)
(* is set and differs from the colour of the cell before it; a change to   *)
(* no colour emits the reset ESC [ 0 m and nothing else; nothing is        *)
(* emitted between two cells of equal colour; and every colour-set escape  *)
(* is followed, before the newline of its line, by a reset.                *)
(***************************************************************************)
\* The escape sequence that sets the foreground colour c.
SetEscape(c) ==
    <<ESC, "[", "3",
      CASE c = "Black" -> "0"
        [] c = "Red" -> "1"
        [] c = "Green" -> "2"
        [] c = "Yellow" -> "3"
        [] c = "Blue" -> "4"
        [] c = "Magenta" -> "5"
        [] c = "Cyan" -> "6"
        [] c = "White" -> "7",
      "m">>

\* str ends with a colour-set escape, of any of the codes 30..37.
EndsWithSetEscape(str) ==
    \E d \in {"0", "1", "2", "3", "4", "5", "6", "7"} :
        EndsWith(str, <<ESC, "[", "3", d, "m">>)

C14_RunLengthEncoding ==
    (is_terminal /\ use_colors) =>
        \A r \in DOMAIN grid :
            LET row == grid[r]
                end == TrimPoint(row)
                line == SplitLines(Output)[r]
                items == Parsed(line).items
                trail == Parsed(line).trail
            IN /\ Len(SplitLines(Output)) = Len(grid)
               /\ Len(items) = end
               /\ trail \in {<<>>, ResetSeq}
               /\ \A c \in 1..end :
                     LET prev == IF c = 1 THEN NoColor ELSE row[c - 1][2]
                         cur == row[c][2]
                         esc == items[c].esc
                     IN /\ items[c].ch = row[c][1]
                        /\ EndsWithSetEscape(esc) <=> (cur # NoColor /\ cur # prev)
                        /\ (cur # NoColor /\ cur # prev) =>
                              /\ EndsWith(esc, SetEscape(cur))
                              /\ esc = (IF prev # NoColor THEN ResetSeq ELSE <<>>)
                                        \o SetEscape(cur)
                              /\ \/ \E d \in (c + 1)..end : StartsWith(items[d].esc, ResetSeq)
                                 \/ trail = ResetSeq
                        /\ (cur = NoColor /\ prev # NoColor) => esc = ResetSeq
                        /\ cur = prev => esc = <<>>

\* In coloured mode a row holds an uncoloured glyph, then two cells of one
\* colour side by side, and a row holds a change from a colour to no colour.
C14_Witness ==
    /\ is_terminal
    /\ use_colors
    /\ \E r \in DOMAIN grid : \E c \in 2..(TrimPoint(grid[r]) - 1) :
          /\ grid[r][c - 1][1] # " "
          /\ grid[r][c - 1][2] = NoColor
          /\ grid[r][c][2] # NoColor
          /\ grid[r][c + 1][2] = grid[r][c][2]
    /\ \E r \in DOMAIN grid : \E c \in 1..(TrimPoint(grid[r]) - 1) :
          grid[r][c][2] # NoColor /\ grid[r][c + 1][2] = NoColor
    /\ \E i \in DOMAIN Output : Output[i] = ESC

\* In coloured mode a row holds a change from one colour to another.
C14_WitnessColourChange ==
    /\ is_terminal
    /\ use_colors
    /\ \E r \in DOMAIN grid : \E c \in 1..(TrimPoint(grid[r]) - 1) :
          /\ grid[r][c][2] \notin {NoColor, grid[r][c + 1][2]}
          /\ grid[r][c + 1][2] # NoColor
          /\ StartsWith(Parsed(SplitLines(Output)[r]).items[c + 1].esc, ResetSeq)

\* In coloured mode a row starts with a coloured cell.
C14_WitnessFirstCell ==
    /\ is_terminal
    /\ use_colors
    /\ \E r \in DOMAIN grid : TrimPoint(grid[r]) >= 1 /\ grid[r][1][2] # NoColor
====
